---------------------------- MODULE Spec2Model ----------------------------
(***************************************************************************)
(* Model of the forum scrapers nba.py and olympics.py: the line prediction *)
(* parser, the post extractor, the page aggregator, the crawl driver and   *)
(* the top-N report slice.                                                 *)
(*                                                                         *)
(* Text is modelled at character level: a string is a sequence of          *)
(* one-character strings, and the two regular expressions of nba.py are    *)
(* modelled by scanning those characters.                                  *)
(***************************************************************************)
EXTENDS Integers, Sequences, FiniteSets, TLC

VARIABLES
  pc,           \* position of the program under study
  alias_table,  \* the alias table parse_line iterates (TEAMS in nba.py)
  line,         \* parse_line: the input line
  data,         \* parse_line: what the call returned or raised
  input,        \* print_top: the list of (count, key) pairs
  num,          \* print_top: N
  printed,      \* print_top: the rows written to standard output, in order
  variant,      \* which program runs: "nba" or "olympics"
  tag,          \* parse_message: the post under extraction
  outcome,      \* parse_message: what the last call returned or raised
  soup,         \* get_messages / crawl loop: the fetched page
  messages,     \* get_messages: the posts of the page not yet processed
  page_entries, \* get_messages: the local dict `entries`
  counts,       \* olympics.py globals user_count, emote_count, image_count
  page,         \* crawl loop: the loop variable
  last_page,    \* crawl loop: last_page
  entries,      \* crawl loop: the global dict `entries`
  fetched,      \* history: the page numbers passed to fetch_soup, in order
  first_nav,    \* history: the navigation header string of the first page
  accepted      \* history: per id, the record of the last post logged ACCEPT

vars == <<pc, alias_table, line, data, input, num, printed, variant, tag,
          outcome, soup, messages, page_entries, counts, page, last_page,
          entries, fetched, first_nav, accepted>>

\* Python's None and raised ValueError, in the shape of the values they stand
\* in for.  A string is a sequence of characters, so None is a sequence that
\* no string is; an integer is wrapped so that no integer stands for an error.
NoRecord == [kind |-> "None"]   \* no record, no exception
NoString == <<"None">>          \* None where a string or a tag is expected
IntOf(n) == [ok |-> TRUE, value |-> n]
NoInt == [ok |-> FALSE, value |-> 0]   \* int() raised ValueError
NoDate == <<>>                  \* strptime raised ValueError

(***************************************************************************)
(* Bounds of the model.                                                    *)
(***************************************************************************)
MaxPieces == 4       \* a line is built from at most this many pieces

(***************************************************************************)
(* Generic helpers.                                                        *)
(***************************************************************************)
Range(s) == {s[i] : i \in 1..Len(s)}

\* Python's list.count
RECURSIVE Count(_, _)
Count(s, x) ==
  IF s = <<>> THEN 0
  ELSE (IF Head(s) = x THEN 1 ELSE 0) + Count(Tail(s), x)

\* "".join(chars): a sequence of one-character strings as one string
RECURSIVE Join(_)
Join(cs) == IF cs = <<>> THEN "" ELSE Head(cs) \o Join(Tail(cs))

(***************************************************************************)
(* nba.py: the alias table.                                                *)
(***************************************************************************)
TEAMS ==
  <<
    [team |-> "ATL", names |-> <<"atl", "atlanta", "hawks">>],
    [team |-> "BOS", names |-> <<"bos", "boston", "celtics">>],
    [team |-> "BKN", names |-> <<"bkn", "brooklyn", "nets">>],
    [team |-> "CLE", names |-> <<"cle", "cleveland", "cavaliers", "cavs">>],
    [team |-> "CHA", names |-> <<"cha", "charlotte", "hornets">>],
    [team |-> "CHI", names |-> <<"chi", "chicago", "bulls">>],
    [team |-> "DAL", names |-> <<"dal", "dallas", "mavericks", "mavs">>],
    [team |-> "DEN", names |-> <<"den", "denver", "nuggets">>],
    [team |-> "DET", names |-> <<"det", "detroit", "pistons">>],
    [team |-> "GSW", names |-> <<"gsw", "golden", "state", "warriors">>],
    [team |-> "HOU", names |-> <<"hou", "houston", "rockets">>],
    [team |-> "IND", names |-> <<"ind", "indiana", "pacers">>],
    [team |-> "LAC", names |-> <<"lac", "clippers">>],
    [team |-> "LAL", names |-> <<"lal", "lakers">>],
    [team |-> "MEM", names |-> <<"mem", "memphis", "grizzlies">>],
    [team |-> "MIA", names |-> <<"mia", "miami", "heat">>],
    [team |-> "MIL", names |-> <<"mil", "milwaukee", "bucks">>],
    [team |-> "MIN", names |-> <<"min", "minnesota", "timberwolves", "wolves">>],
    [team |-> "NOP", names |-> <<"nop", "orleans", "pelicans", "no", "nola", "pels">>],
    [team |-> "NYK", names |-> <<"nyk", "york", "knicks", "nyc", "ny">>],
    [team |-> "OKC", names |-> <<"okc", "oklahoma", "thunder">>],
    [team |-> "ORL", names |-> <<"orl", "orlando", "magic">>],
    [team |-> "PHI", names |-> <<"phi", "philadelphia", "sixers">>],
    [team |-> "PHX", names |-> <<"phx", "phoenix", "suns", "pho">>],
    [team |-> "POR", names |-> <<"por", "portland", "trailblazers", "blazers">>],
    [team |-> "SAC", names |-> <<"sac", "sacramento", "kings">>],
    [team |-> "SAS", names |-> <<"sas", "san", "antonio", "spurs">>],
    [team |-> "TOR", names |-> <<"tor", "toronto", "raptors">>],
    [team |-> "UTA", names |-> <<"uta", "utah", "jazz">>],
    [team |-> "WAS", names |-> <<"was", "washington", "wizards">>]
  >>

(***************************************************************************)
(* Characters.  A character is a one-character string; the alphabet is     *)
(* Latin-1, and a character outside it that the program can produce or     *)
(* tell apart is written by its escape ("\\u03bc").  Upper and Lower pair  *)
(* the letters that str.lower changes; \w is a letter, a digit (also a     *)
(* superscript or a fraction) or the underscore.                           *)
(***************************************************************************)
Upper == <<"A","B","C","D","E","F","G","H","I","J","K","L","M",
           "N","O","P","Q","R","S","T","U","V","W","X","Y","Z",
           "À","Á","Â","Ã","Ä","Å","Æ","Ç","È","É","Ê","Ë","Ì",
           "Í","Î","Ï","Ð","Ñ","Ò","Ó","Ô","Õ","Ö","Ø","Ù","Ú",
           "Û","Ü","Ý","Þ">>
Lower == <<"a","b","c","d","e","f","g","h","i","j","k","l","m",
           "n","o","p","q","r","s","t","u","v","w","x","y","z",
           "à","á","â","ã","ä","å","æ","ç","è","é","ê","ë","ì",
           "í","î","ï","ð","ñ","ò","ó","ô","õ","ö","ø","ù","ú",
           "û","ü","ý","þ">>
Digits == {"0","1","2","3","4","5","6","7","8","9"}

UpperSet == Range(Upper)

\* str.isspace
Whitespace ==
  {" ", "\t", "\n", "\r", "\f", "\\x0b", "\\x1c", "\\x1d", "\\x1e", "\\x1f",
   "\\x85", "\\xa0", "\\u1680", "\\u2000", "\\u2001", "\\u2002", "\\u2003",
   "\\u2004", "\\u2005", "\\u2006", "\\u2007", "\\u2008", "\\u2009",
   "\\u200a", "\\u2028", "\\u2029", "\\u202f", "\\u205f", "\\u3000"}

WordChars ==
  Range(Upper) \cup Range(Lower) \cup Digits
    \cup {"_", "ª", "²", "³", "µ", "¹", "º", "¼", "½", "¾", "ß", "ÿ",
          "\\u03bc", "\\u017f"}

\* str.lower of one character
LowerOf == [c \in UpperSet |-> Lower[CHOOSE i \in 1..Len(Upper) : Upper[i] = c]]

lower_char(c) == IF c \in UpperSet THEN LowerOf[c] ELSE c

\* str.casefold of one character: the characters it becomes
casefold_char(c) ==
  IF c \in UpperSet THEN <<LowerOf[c]>>
  ELSE IF c = "ß" THEN <<"s", "s">>
  ELSE IF c = "µ" THEN <<"\\u03bc">>
  ELSE IF c = "\\u017f" THEN <<"s">>
  ELSE <<c>>

RECURSIVE casefold(_)
casefold(s) ==
  IF s = <<>> THEN <<>> ELSE casefold_char(Head(s)) \o casefold(Tail(s))

IsWordChar(c) == c \in WordChars

\* \b at the gap before position i (1..Len(s)+1) of s
WordBoundary(s, i) ==
  LET before == i > 1 /\ IsWordChar(s[i - 1])
      after  == i <= Len(s) /\ IsWordChar(s[i])
  IN  before # after

\* The end of the longest run of \w characters that starts at i
RECURSIVE RunEnd(_, _)
RunEnd(s, i) ==
  IF i < Len(s) /\ IsWordChar(s[i + 1]) THEN RunEnd(s, i + 1) ELSE i

\* re.findall(WORD_REGEX, s) with WORD_REGEX = \b\w{2,}\b, scanning from i
RECURSIVE FindWords(_, _)
FindWords(s, i) ==
  IF i > Len(s) THEN <<>>
  ELSE IF IsWordChar(s[i]) /\ WordBoundary(s, i)
       THEN LET j == RunEnd(s, i)
            IN  IF j - i + 1 >= 2
                THEN <<Join(SubSeq(s, i, j))>> \o FindWords(s, j + 1)
                ELSE FindWords(s, i + 1)
       ELSE FindWords(s, i + 1)

\* The score pattern without its lookarounds: \b[0-4]\b
ScoreMatchAtBare(s, i) ==
  /\ WordBoundary(s, i)
  /\ s[i] \in {"0", "1", "2", "3", "4"}
  /\ WordBoundary(s, i + 1)

\* Whether SCORE_REGEX = (?<!\()\b[0-4]\b(?!\)) matches at position i
ScoreMatchAt(s, i) ==
  /\ ~(i > 1 /\ s[i - 1] = "(")
  /\ WordBoundary(s, i)
  /\ s[i] \in {"0", "1", "2", "3", "4"}
  /\ WordBoundary(s, i + 1)
  /\ ~(i < Len(s) /\ s[i + 1] = ")")

\* int() of one decimal digit
DigitValue(c) ==
  CASE c = "0" -> 0 [] c = "1" -> 1 [] c = "2" -> 2 [] c = "3" -> 3
    [] c = "4" -> 4 [] c = "5" -> 5 [] c = "6" -> 6 [] c = "7" -> 7
    [] c = "8" -> 8 [] c = "9" -> 9

\* [int(n) for n in re.findall(SCORE_REGEX, s)], scanning from i
RECURSIVE FindScores(_, _)
FindScores(s, i) ==
  IF i > Len(s) THEN <<>>
  ELSE IF ScoreMatchAt(s, i)
       THEN <<DigitValue(s[i])>> \o FindScores(s, i + 1)
       ELSE FindScores(s, i + 1)

(***************************************************************************)
(* nba.py parse_line.                                                      *)
(***************************************************************************)
\* The inner loop over TEAMS.items() for one word: entry k is where the
\* loop appends and breaks when no earlier entry did
Resolves(table, word, teams, k) ==
  /\ \E i \in 1..Len(table[k].names) : table[k].names[i] = word
  /\ \A i \in 1..Len(teams) : teams[i] # table[k].team

ResolveWord(table, word, teams) ==
  IF \E k \in 1..Len(table) : Resolves(table, word, teams, k)
  THEN Append(teams,
              table[CHOOSE k \in 1..Len(table) :
                      /\ Resolves(table, word, teams, k)
                      /\ \A j \in 1..(k - 1) : ~Resolves(table, word, teams, j)].team)
  ELSE teams

\* The outer loop over the words
RECURSIVE CollectTeams(_, _, _)
CollectTeams(table, words, teams) ==
  IF words = <<>> THEN teams
  ELSE CollectTeams(table, Tail(words), ResolveWord(table, Head(words), teams))

Raise(kind, msg, args) == [kind |-> kind, msg |-> msg, args |-> args]

\* The assertions with the team count checked before the scores
ValidateTeamsFirst(teams, scores) ==
  IF teams = <<>> THEN Raise("AssertionError", "no team found", <<>>)
  ELSE IF Len(teams) # 2
    THEN Raise("AssertionError", "must have exactly two teams", teams)
  ELSE IF scores = <<>> THEN Raise("AssertionError", "no score found", <<>>)
  ELSE IF Len(scores) # 2
    THEN Raise("AssertionError", "must have exactly two scores", scores)
  ELSE IF Count(scores, 4) # 1
    THEN Raise("AssertionError", "exactly one score must be 4", scores)
  ELSE NoRecord

\* Lines 122-126: the assertions, in order; NoRecord when all of them pass
Validate(teams, scores) ==
  IF teams = <<>> THEN Raise("AssertionError", "no team found", <<>>)
  ELSE IF scores = <<>> THEN Raise("AssertionError", "no score found", <<>>)
  ELSE IF Len(teams) # 2
    THEN Raise("AssertionError", "must have exactly two teams", teams)
  ELSE IF Len(scores) # 2
    THEN Raise("AssertionError", "must have exactly two scores", scores)
  ELSE IF Count(scores, 4) # 1
    THEN Raise("AssertionError", "exactly one score must be 4", scores)
  ELSE NoRecord

\* The comparison of line 127 reversed
WinnerReversed(teams, scores) ==
  IF scores[1] < scores[2] THEN teams[1] ELSE teams[2]

\* Line 127
Winner(teams, scores) == IF scores[1] > scores[2] THEN teams[1] ELSE teams[2]

\* Lines 122-128 on the teams and scores collected
Prediction(teams, scores) ==
  IF Validate(teams, scores) # NoRecord THEN Validate(teams, scores)
  ELSE [kind   |-> "return",
        result |-> <<Winner(teams, scores), scores[1] + scores[2]>>,
        teams  |-> teams,
        scores |-> scores]

\* Lines 114-128 on the case-folded line
parse_folded(table, s) ==
  Prediction(CollectTeams(table, FindWords(s, 1), <<>>), FindScores(s, 1))

parse_line(table, raw) == parse_folded(table, casefold(raw))

(***************************************************************************)
(* Input lines.  A line is the concatenation of a few pieces, stripped as  *)
(* stripped_strings strips every line it yields, and not empty.            *)
(***************************************************************************)
RECURSIVE lstrip(_)
lstrip(s) == IF s # <<>> /\ Head(s) \in Whitespace THEN lstrip(Tail(s)) ELSE s

RECURSIVE rstrip(_)
rstrip(s) ==
  IF s # <<>> /\ s[Len(s)] \in Whitespace
  THEN rstrip(SubSeq(s, 1, Len(s) - 1)) ELSE s

strip(s) == rstrip(lstrip(s))

RECURSIVE Concat(_)
Concat(ss) == IF ss = <<>> THEN <<>> ELSE Head(ss) \o Concat(Tail(ss))

LinesOver(pieces, n) ==
  {strip(Concat(ps)) : ps \in UNION {[1..k -> pieces] : k \in 1..n}} \ {<<>>}

Pieces ==
  { <<"L","A","L"," ">>,
    <<"C","e","l","t","i","c","s"," ">>,
    <<"c","h","i">>,
    <<"4"," ">>,
    <<"2"," ">>,
    <<"4","-","2"," ">>,
    <<"(","3",")"," ">>,
    <<"(">>,
    <<"4",")">>,
    <<"É","ß","\t">> }

Lines == LinesOver(Pieces, MaxPieces)

\* An alias table in which two teams share the alias "la".  TEAMS of nba.py
\* has no such alias: this is the table of the claim about shared aliases,
\* put in the place of TEAMS.
SHARED_TEAMS ==
  <<
    [team |-> "LAL", names |-> <<"lal", "la", "lakers">>],
    [team |-> "LAC", names |-> <<"lac", "la", "clippers">>],
    [team |-> "BOS", names |-> <<"bos", "boston", "celtics">>]
  >>

AliasPieces ==
  { <<"l","a"," ">>,
    <<"L","A","C"," ">>,
    <<"b","o","s"," ">>,
    <<"4"," ">>,
    <<"2"," ">> }

AliasLines == LinesOver(AliasPieces, MaxPieces)

(***************************************************************************)
(* int(s): surrounding whitespace is dropped (the separators \x1c-\x1f     *)
(* are not, though str.strip drops them), then an optional sign and        *)
(* decimal digits, single underscores allowed between digits.  The result  *)
(* is IntOf(n), or NoInt where int() raises ValueError.                      *)
(***************************************************************************)
RECURSIVE ParseDigits(_, _)
ParseDigits(s, acc) ==
  IF s = <<>> THEN acc
  ELSE ParseDigits(Tail(s), 10 * acc + DigitValue(Head(s)))

Signed(s) == s # <<>> /\ Head(s) \in {"+", "-"}

Unsigned(s) == IF Signed(s) THEN Tail(s) ELSE s

\* Digits, with single underscores between them only
DigitString(s) ==
  /\ s # <<>>
  /\ \A i \in 1..Len(s) : s[i] \in Digits \cup {"_"}
  /\ s[1] # "_" /\ s[Len(s)] # "_"
  /\ \A i \in 1..(Len(s) - 1) : ~(s[i] = "_" /\ s[i + 1] = "_")

Magnitude(s) == ParseDigits(SelectSeq(s, LAMBDA c : c # "_"), 0)

ParseStripped(s) ==
  IF DigitString(Unsigned(s))
  THEN IntOf(IF Signed(s) /\ Head(s) = "-"
           THEN 0 - Magnitude(Unsigned(s)) ELSE Magnitude(Unsigned(s)))
  ELSE NoInt

\* The whitespace int() drops: str.isspace without the separators
\* \x1c-\x1f, which int() takes for part of the number
IntWhitespace == Whitespace \ {"\\x1c", "\\x1d", "\\x1e", "\\x1f"}

RECURSIVE IntLStrip(_)
IntLStrip(s) ==
  IF s # <<>> /\ Head(s) \in IntWhitespace THEN IntLStrip(Tail(s)) ELSE s

RECURSIVE IntRStrip(_)
IntRStrip(s) ==
  IF s # <<>> /\ s[Len(s)] \in IntWhitespace
  THEN IntRStrip(SubSeq(s, 1, Len(s) - 1)) ELSE s

ParseInt(s) == ParseStripped(IntRStrip(IntLStrip(s)))

(***************************************************************************)
(* parse_date: datetime.strptime(date_string, format).  strptime turns the *)
(* format into a regular expression matched against the whole string       *)
(* without regard to case: a space of the format stands for a run of       *)
(* whitespace, %d %m %H %M %S for one or two digits, %Y for four.  The     *)
(* fields then go to datetime(), which checks their ranges.  The result is *)
(* <<year, month, day, hour, minute, second>>, or NoDate for ValueError.   *)
(***************************************************************************)
\* How many of the first `most` characters of s from i on are digits
RECURSIVE DigitRun(_, _, _)
DigitRun(s, i, most) ==
  IF most > 0 /\ i <= Len(s) /\ s[i] \in Digits
  THEN 1 + DigitRun(s, i + 1, most - 1)
  ELSE 0

\* How many characters of s from i on are whitespace
RECURSIVE SpaceRun(_, _)
SpaceRun(s, i) ==
  IF i <= Len(s) /\ s[i] \in Whitespace THEN 1 + SpaceRun(s, i + 1) ELSE 0

HasLiteral(s, i, lit) ==
  /\ i + Len(lit) - 1 <= Len(s)
  /\ SubSeq(s, i, i + Len(lit) - 1) = lit

\* Two characters that re.IGNORECASE takes for one another
SameLetter(c, d) ==
  \/ lower_char(c) = lower_char(d)
  \/ {c, d} \subseteq {"s", "S", "\\u017f"}

HasLiteralAnyCase(s, i, lit) ==
  /\ i + Len(lit) - 1 <= Len(s)
  /\ \A j \in 1..Len(lit) : SameLetter(s[i + j - 1], lit[j])

Lit(text) == [kind |-> "literal", lit |-> text, min |-> 0, max |-> 0]
Space == [kind |-> "space", lit |-> <<>>, min |-> 0, max |-> 0]
Num(min, max) == [kind |-> "number", lit |-> <<>>, min |-> min, max |-> max]

\* "Posté le %d-%m-%Y à %H:%M:%S"
FORMAT ==
  << Lit(<<"P", "o", "s", "t", "é">>), Space, Lit(<<"l", "e">>), Space,
     Num(1, 2), Lit(<<"-">>), Num(1, 2), Lit(<<"-">>), Num(4, 4),
     Space, Lit(<<"à">>), Space,
     Num(1, 2), Lit(<<":">>), Num(1, 2), Lit(<<":">>), Num(1, 2) >>

\* The numeric fields of s from position i on under the directives k.. of
\* FORMAT, appended to fields; NoDate when s does not match
RECURSIVE Scan(_, _, _, _)
RECURSIVE ScanNum(_, _, _, _, _)
Scan(s, i, k, fields) ==
  IF k > Len(FORMAT) THEN (IF i = Len(s) + 1 THEN fields ELSE NoDate)
  ELSE IF FORMAT[k].kind = "literal"
       THEN IF HasLiteralAnyCase(s, i, FORMAT[k].lit)
            THEN Scan(s, i + Len(FORMAT[k].lit), k + 1, fields)
            ELSE NoDate
  ELSE IF FORMAT[k].kind = "space"
       THEN IF SpaceRun(s, i) > 0
            THEN Scan(s, i + SpaceRun(s, i), k + 1, fields)
            ELSE NoDate
  ELSE ScanNum(s, i, k, fields, DigitRun(s, i, FORMAT[k].max))

ScanNum(s, i, k, fields, n) ==
  IF n < FORMAT[k].min THEN NoDate
  ELSE Scan(s, i + n, k + 1,
            Append(fields, ParseDigits(SubSeq(s, i, i + n - 1), 0)))

IsLeap(y) == (y % 4 = 0 /\ y % 100 # 0) \/ y % 400 = 0

DaysIn(m, y) ==
  IF m = 2 THEN (IF IsLeap(y) THEN 29 ELSE 28)
  ELSE IF m \in {4, 6, 9, 11} THEN 30 ELSE 31

\* datetime(year, month, day, hour, minute, second) of the fields read
DateOf(f) ==
  IF /\ f # NoDate
     /\ f[2] \in 1..12 /\ f[3] >= 1 /\ f[1] \in 1..DaysIn(f[2], f[3])
     /\ f[4] \in 0..23 /\ f[5] \in 0..59 /\ f[6] \in 0..59
  THEN <<f[3], f[2], f[1], f[4], f[5], f[6]>>
  ELSE NoDate

strptime(s) == DateOf(Scan(s, 1, 1, <<>>))

\* next(date_tag.stripped_strings) is the string stripped
parse_date(message) == strptime(strip(message.date_string))

(***************************************************************************)
(* A post (tr.message) as the document queries present it:                 *)
(*   b            metadata.b.string, the author                            *)
(*   a            metadata.a.get("name"), NoString without permalink anchor*)
(*                (an anchor always carries a name, possibly empty)        *)
(*   date_string  the first string of the date tag that is not blank        *)
(*   cite         the string of the a.cLink link, NoString when there is    *)
(*                none                                                     *)
(*   body         the children of div#para<id>: text, img, div (quote)     *)
(*                and span (signature) nodes                               *)
(***************************************************************************)
Text(s) == [node |-> "text", string |-> s]
Img(alt) == [node |-> "img", alt |-> alt]
Quote(s) == [node |-> "div", string |-> s]
Signature(s) == [node |-> "span", string |-> s]

\* cleanup_text: decompose every node of the given kinds
cleanup_text(body, kinds) == SelectSeq(body, LAMBDA n : n.node \notin kinds)

\* list(text.stripped_strings): the stripped strings that are not empty
RECURSIVE stripped_strings(_)
stripped_strings(body) ==
  IF body = <<>> THEN <<>>
  ELSE LET n == Head(body)
           s == IF n.node = "img" THEN <<>> ELSE strip(n.string)
       IN  (IF s = <<>> THEN <<>> ELSE <<s>>) \o stripped_strings(Tail(body))

DUPLICATE_MARKER == <<"R", "e", "p", "r", "i", "s", "e", " ", "d", "u", " ", "m", "e", "s", "s", "a", "g", "e", " ", "p", "r", "é", "c", "é", "d", "e", "n", "t", " ", ":">>

Return(entry) == [kind |-> "return", entry |-> entry]

(***************************************************************************)
(* nba.py parse_message.                                                   *)
(***************************************************************************)
\* Lines 147-153: the results of the lines parse_line accepts, in order
RECURSIVE Series(_)
Series(lines) ==
  IF lines = <<>> THEN <<>>
  ELSE LET d == parse_line(TEAMS, Head(lines))
       IN  (IF d.kind = "return" THEN <<d.result>> ELSE <<>>)
             \o Series(Tail(lines))

\* The assertions with at least 15 series required
CheckSeriesAtLeast(series) ==
  IF ~(Len(series) > 0) THEN Raise("AssertionError", "no series found.", <<>>)
  ELSE IF Len(series) < 15
    THEN Raise("AssertionError", "number of series must be 15, found",
               <<Len(series)>>)
  ELSE NoRecord

\* Lines 155-156: NoRecord when both assertions pass
CheckSeries(series) ==
  IF ~(Len(series) > 0) THEN Raise("AssertionError", "no series found.", <<>>)
  ELSE IF Len(series) # 15
    THEN Raise("AssertionError", "number of series must be 15, found",
               <<Len(series)>>)
  ELSE NoRecord

\* Lines 155-157
nba_entry(user, id, date, series) ==
  IF CheckSeries(series) # NoRecord THEN CheckSeries(series)
  ELSE Return([user |-> user, id |-> id, date |-> date, results |-> series])

\* Lines 143-157
nba_body(user, id, date, lines) ==
  IF lines # <<>> /\ lines[1] = DUPLICATE_MARKER
  THEN Raise("AssertionError",
             "skipping first message of new page (duplicate).", <<>>)
  ELSE nba_entry(user, id, date, Series(lines))

\* Lines 139-157
nba_dated(t, user, id, date) ==
  IF date = NoDate
  THEN Raise("ValueError", "time data does not match format", <<>>)
  ELSE nba_body(user, id, date,
                stripped_strings(cleanup_text(t.body, {"div", "img", "span"})))

\* s[1:]
From1(s) == SubSeq(s, 2, Len(s))

nba_parse_message(t) ==
  IF t.a = NoString THEN Raise("AssertionError", "advertisement.", <<>>)
  ELSE nba_dated(t, Join(strip(t.b)), Join(From1(t.a)), parse_date(t))

(***************************************************************************)
(* olympics.py parse_message.  user_count, emote_count and image_count are *)
(* defaultdict(int): a key is present once it has been incremented.        *)
(***************************************************************************)
Inc(d, k) ==
  IF k \in DOMAIN d THEN [d EXCEPT ![k] = @ + 1]
  ELSE [x \in DOMAIN d \cup {k} |-> IF x = k THEN 1 ELSE d[x]]

EmptyDict == [x \in {} |-> 0]

NoCounts == [user |-> EmptyDict, emote |-> EmptyDict, image |-> EmptyDict]

ZWSP == "\\u200B"

\* str.split(): the maximal runs of characters that are not whitespace
RECURSIVE split(_)
split(s) ==
  LET t == lstrip(s)
      n == IF \E i \in 1..Len(t) : t[i] \in Whitespace
           THEN (CHOOSE i \in 1..Len(t) :
                   /\ t[i] \in Whitespace
                   /\ \A j \in 1..(i - 1) : t[j] \notin Whitespace) - 1
           ELSE Len(t)
  IN  IF t = <<>> THEN <<>>
      ELSE <<SubSeq(t, 1, n)>> \o split(SubSeq(t, n + 1, Len(t)))

\* re.search of "Message cité \d+ fois" in s
CITE_PREFIX == <<"M", "e", "s", "s", "a", "g", "e", " ", "c", "i", "t", "é", " ">>
CITE_SUFFIX == <<" ", "f", "o", "i", "s">>

CiteAt(s, i) ==
  /\ HasLiteral(s, i, CITE_PREFIX)
  /\ DigitRun(s, i + Len(CITE_PREFIX), Len(s)) > 0
  /\ HasLiteral(s, i + Len(CITE_PREFIX)
                    + DigitRun(s, i + Len(CITE_PREFIX), Len(s)), CITE_SUFFIX)

IsCite(s) == s # NoString /\ \E i \in 1..Len(s) : CiteAt(s, i)

\* parse_quotes; NoInt where int() raises ValueError
parse_quotes(t) ==
  IF ~IsCite(t.cite) THEN IntOf(0) ELSE ParseInt(split(t.cite)[3])

startswith(s, prefix) == HasLiteral(s, 1, prefix)

\* Lines 103-110: the loop over the images of the cleaned body
CountImage(name, c) ==
  IF name \in {NoString, <<>>} THEN c
  ELSE IF startswith(name, <<"h", "t", "t", "p">>)
    THEN [c EXCEPT !.image = Inc(@, Join(name))]
    ELSE [c EXCEPT !.emote = Inc(@, Join(name))]

RECURSIVE CountImages(_, _)
CountImages(images, c) ==
  IF images = <<>> THEN c
  ELSE CountImages(Tail(images), CountImage(Head(images).alt, c))

Outcome(r, c) == [kind |-> r.kind, value |-> r, counts |-> c]

\* Lines 111-114; c holds the globals after the loop over the images
olympics_entry(user, id, date, quotes, pg, lines, c) ==
  IF lines # <<>> /\ lines[1] = DUPLICATE_MARKER
  THEN Outcome(Raise("AssertionError",
                     "skipping first message of new page (duplicate).", <<>>), c)
  ELSE Outcome(Return([user |-> user, id |-> id.value, date |-> date,
                       quotes |-> quotes.value, page |-> pg,
                       url |-> <<"TOPIC_BASE_URL", pg, id.value>>]), c)

\* Lines 101-114; text is the body after cleanup_text
olympics_body(user, id, date, quotes, pg, text, c) ==
  olympics_entry(user, id, date, quotes, pg, stripped_strings(text),
                 CountImages(SelectSeq(text, LAMBDA n : n.node = "img"), c))

\* Lines 96-114; c holds the globals after user_count[user] += 1
olympics_counted(t, user, id, date, quotes, pg, c) ==
  IF id = NoInt
  THEN Outcome(Raise("ValueError", "invalid literal for int()", <<>>), c)
  ELSE IF date = NoDate
  THEN Outcome(Raise("ValueError", "time data does not match format", <<>>), c)
  ELSE IF quotes = NoInt
  THEN Outcome(Raise("ValueError", "invalid literal for int()", <<>>), c)
  ELSE olympics_body(user, id, date, quotes, pg,
                     cleanup_text(t.body, {"div", "span"}), c)

\* Lines 95-114
olympics_named(t, user, pg, c) ==
  olympics_counted(t, user, ParseInt(From1(t.a)), parse_date(t),
                   parse_quotes(t), pg, [c EXCEPT !.user = Inc(@, user)])

olympics_parse_message(t, pg, c) ==
  IF t.a = NoString
  THEN Outcome(Raise("AssertionError", "advertisement.", <<>>), c)
  ELSE olympics_named(t, Join(SelectSeq(strip(t.b), LAMBDA ch : ch # ZWSP)),
                      pg, c)

(***************************************************************************)
(* olympics.py print_top.  The rows printed are the items of `data`.       *)
(***************************************************************************)
Threshold(inp, n) == IF Len(inp) > n THEN inp[n][1] ELSE 0

\* The comparison of line 120 made strict
KeepsAbove(x, threshold) == x[1] > threshold

Keeps(x, threshold) == x[1] >= threshold

print_top(inp, n) ==
  SelectSeq(inp, LAMBDA x : Keeps(x, Threshold(inp, n)))

(***************************************************************************)
(* Program constants.                                                      *)
(***************************************************************************)
nba_start_page == 6652
nba_LIMIT == 5
olympics_start_page == 1

start_page(v) == IF v = "nba" THEN nba_start_page ELSE olympics_start_page

(***************************************************************************)
(* Bounds of the inputs.                                                   *)
(***************************************************************************)
MaxLines == 17       \* lines of a post body in the post extractor's inputs
MaxPosts == 3        \* posts of a page in the page aggregator's inputs
MaxCrawlPosts == 2   \* posts of a page in the crawl driver's inputs
MaxList == 4         \* rows of a print_top input
MaxNum == 5          \* N of print_top

(***************************************************************************)
(* Input posts.                                                            *)
(***************************************************************************)
DATE_1 == <<"P", "o", "s", "t", "é", " ", "l", "e", " ", "0", "1", "-", "0", "5", "-", "2", "0", "2", "4", " ", "à", " ", "1", "0", ":", "0", "0", ":", "0", "0">>
DATE_2 == <<"P", "O", "S", "T", "É", " ", "l", "e", "\t", " ", "2", "-", "5", "-", "2", "0", "2", "4", " ", "À", "\\xa0", "9", ":", "3", "0", ":", "0", "5", "\n">>
DATE_BAD == <<"P", "o", "s", "t", "é", " ", "l", "e", " ", "0", "1", "-", "0", "5", "-", "2", "0", "2", "4">>
DATE_60 == <<"P", "o", "s", "t", "é", " ", "l", "e", " ", "0", "1", "-", "0", "5", "-", "2", "0", "2", "4", " ", "à", " ", "1", "0", ":", "0", "0", ":", "6", "0">>

LINE_A == <<"L", "A", "L", " ", "4", " ", "b", "o", "s", " ", "2">>
LINE_B == <<"\t", "C", "e", "l", "t", "i", "c", "s", " ", "4", "-", "1", "\\xa0", "c", "h", "i", " ", "(", "3", ")", "\n">>
LINE_JUNK == <<"g", "o", " ", "g", "o">>

Tag(b, a, date_string, cite, body) ==
  [b |-> b, a |-> a, date_string |-> date_string, cite |-> cite, body |-> body]

\* n text nodes: the first k hold LINE_A, the others LINE_B, but node j,
\* if there is one, holds a line that is no prediction
BodyOf(n, k, j) ==
  [i \in 1..n |->
     Text(IF i = j THEN LINE_JUNK ELSE IF i <= k THEN LINE_A ELSE LINE_B)]

MessageBodies ==
  UNION { { BodyOf(n, k, j), <<Text(DUPLICATE_MARKER)>> \o BodyOf(n, k, j) }
          : <<n, k, j>> \in { x \in (0..MaxLines) \X (0..MaxLines) \X (0..MaxLines) :
                                /\ x[2] \in {0, 1, x[1]}
                                /\ x[3] \in {0, 1, x[1]} } }

MessageTags ==
  { Tag(<<" ", "P", "i", "c", " ">>, a, d, NoString, body) :
      a \in {NoString, <<>>, <<"t", "7">>}, d \in {DATE_1, DATE_BAD, DATE_60}, body \in MessageBodies }

NBA_TAGS ==
  { Tag(<<" ", "P", "i", "c", " ">>, <<"t", "7">>, DATE_1, NoString, BodyOf(15, 15, 0)),
    Tag(<<"\n", "p", "u", "n", "\t">>, <<"t", "7">>, DATE_2, NoString, BodyOf(15, 0, 0)),
    Tag(<<"P", "i", "c">>, <<"t", "8">>, DATE_1, NoString,
        <<Quote(LINE_A), Img(<<":", "o">>)>> \o BodyOf(16, 9, 3)),
    Tag(<<"P", "u", "b">>, NoString, DATE_1, NoString, <<>>),
    Tag(<<"P", "u", "b">>, <<>>, DATE_1, NoString, BodyOf(1, 1, 0)),
    Tag(<<"p", "u", "n">>, <<"t", "8">>, DATE_1, NoString,
        <<Text(DUPLICATE_MARKER)>> \o BodyOf(15, 15, 0)),
    Tag(<<"p", "u", "n">>, <<"t", "8">>, DATE_BAD, NoString, BodyOf(15, 15, 0)),
    Tag(<<"P", "i", "c">>, <<"t", "8">>, DATE_2, NoString, BodyOf(14, 14, 0)) }

OLYMPICS_TAGS ==
  { Tag(<<" ", "P", "i", "c", " ">>, <<"t", "7">>, DATE_1, NoString,
        <<Text(<<"b", "r", "a", "v", "o", " ">>), Img(<<":", "o">>)>>),
    Tag(<<"p", "u", "n">>, <<"t", "7">>, DATE_2, <<"M", "e", "s", "s", "a", "g", "e", " ", "c", "i", "t", "é", " ", "3", " ", "f", "o", "i", "s">>,
        <<Img(<<"h", "t", "t", "p", ":", "/", "/", "i", ".", "g", "i", "f">>), Text(<<"o", "r">>), Img(<<":", "o">>)>>),
    Tag(<<"P", ZWSP, "i", "c">>, <<"t", "8">>, DATE_1, NoString,
        <<Quote(<<"b", "r", "a", "v", "o">>), Img(NoString), Signature(<<"-", "-">>)>>),
    Tag(<<"P", "u", "b">>, NoString, DATE_1, NoString, <<>>),
    Tag(<<"P", "u", "b">>, <<>>, DATE_1, NoString, <<>>),
    Tag(<<"p", "u", "n">>, <<"t", "+", "9">>, DATE_1, <<"c", "i", "t", "é">>,
        <<Img(<<>>), Text(<<"o", "r">>)>>),
    Tag(<<"p", "u", "n">>, <<"t", "8">>, DATE_1, NoString,
        <<Text(DUPLICATE_MARKER), Img(<<":", "o">>), Text(<<"o", "r">>)>>),
    Tag(<<"p", "u", "n">>, <<"t", "8">>, DATE_60, NoString, <<Text(<<"o", "r">>)>>),
    Tag(<<"p", "u", "n">>, <<"t", "\\x1f", "7">>, DATE_1, NoString, <<Text(<<"o", "r">>)>>) }

TAGS(v) == IF v = "nba" THEN NBA_TAGS ELSE OLYMPICS_TAGS

(***************************************************************************)
(* parse_message of the running program.  nba.py's reads and writes no     *)
(* global: what it returns or raises for each input post is tabulated.     *)
(***************************************************************************)
NBA_OUTCOMES == [t \in NBA_TAGS |-> nba_parse_message(t)]

parse_message(v, t, pg, c) ==
  IF v = "nba" THEN Outcome(NBA_OUTCOMES[t], c)
  ELSE olympics_parse_message(t, pg, c)

(***************************************************************************)
(* get_messages: one iteration of its loop, and the whole loop.  The state *)
(* of the loop is the local dict, the globals, and whether an exception    *)
(* other than AssertionError has left the function.                        *)
(***************************************************************************)
\* entries[entry["id"]] = entry
Store(d, id, entry) ==
  [x \in DOMAIN d \cup {id} |-> IF x = id THEN entry ELSE d[x]]

\* Lines 82-85 of nba.py, 56-59 of olympics.py, on what parse_message gave
Handle(st, o) ==
  [entries |-> IF o.kind = "return"
               THEN Store(st.entries, o.value.entry.id, o.value.entry)
               ELSE st.entries,
   counts  |-> o.counts,
   last    |-> o.value,
   raised  |-> o.kind \notin {"return", "AssertionError"}]

\* Lines 80-85 of nba.py, 53-59 of olympics.py
Iteration(v, pg, st, t) == Handle(st, parse_message(v, t, pg, st.counts))

RECURSIVE Loop(_, _, _, _)
Loop(v, pg, st, ms) ==
  IF ms = <<>> \/ st.raised THEN st
  ELSE Loop(v, pg, Iteration(v, pg, st, Head(ms)), Tail(ms))

get_messages(v, pg, trs, c) ==
  Loop(v, pg, [entries |-> EmptyDict, counts |-> c, last |-> NoRecord,
               raised |-> FALSE], trs)

\* A merge that keeps the record already stored
UpdateKeepingFirst(d, e) ==
  [x \in DOMAIN d \cup DOMAIN e |-> IF x \in DOMAIN d THEN d[x] ELSE e[x]]

\* dict.update
Update(d, e) ==
  [x \in DOMAIN d \cup DOMAIN e |-> IF x \in DOMAIN e THEN e[x] ELSE d[x]]

SeqsUpTo(S, n) == UNION {[1..k -> S] : k \in 0..n}

\* A fetched page: the HTTP status, the tr.message rows, and the string of
\* the last element of the navigation header
Soup(status, trs, nav) == [status |-> status, trs |-> trs, nav |-> nav]

NAVS == { <<"6", "6", "5", "1">>, <<"6", "6", "5", "2">>, <<"6", "6", "5", "4">>, <<"6", "6", "6", "0">>, <<">", ">">>,
          <<"\n", "6", "6", "5", "3">>, <<"\\x1f", "6", "6", "5", "4">> }

CrawlSoups ==
  { Soup(200, trs, nav) : trs \in SeqsUpTo(NBA_TAGS, MaxCrawlPosts), nav \in NAVS }
    \cup { Soup(503, <<>>, <<"6", "6", "5", "2">>) }

\* get_last_page; NoInt where int() raises ValueError
get_last_page(s) == ParseInt(s.nav)

\* Descending lists of (count, key) pairs with distinct keys
COUNTS == {3, 4, 5}
KEYS == <<"a", "b", "c", "d", "e", "f", "g", "h">>

TopInputs ==
  { [i \in 1..n |-> <<cs[i], KEYS[i]>>] :
      <<n, cs>> \in { x \in UNION {{k} \X [1..k -> COUNTS] : k \in 0..MaxList} :
                        \A i \in 1..(x[1] - 1) : x[2][i] >= x[2][i + 1] } }

(***************************************************************************)
(* The posts of a page in document order, for the history of a run.        *)
(***************************************************************************)
\* What parse_message returns or raises for post i of trs
Given(v, pg, trs, i) == parse_message(v, trs[i], pg, NoCounts).value

\* The posts get_messages processes before it returns or is left
Processed(v, pg, trs) ==
  LET raising == {i \in 1..Len(trs) : Given(v, pg, trs, i).kind = "ValueError"}
  IN  IF raising = {} THEN trs
      ELSE SubSeq(trs, 1, (CHOOSE i \in raising : \A j \in raising : i <= j) - 1)

\* acc after the posts of trs: per id, the record of the last post accepted
LastAccepted(v, pg, acc, trs) ==
  LET given == [i \in 1..Len(trs) |-> Given(v, pg, trs, i)]
      ok    == {i \in 1..Len(trs) : given[i].kind = "return"}
      ids   == {given[i].entry.id : i \in ok}
      last  == [id \in ids |->
                  CHOOSE i \in ok :
                    /\ given[i].entry.id = id
                    /\ \A j \in ok : given[j].entry.id = id => j <= i]
  IN  [id \in DOMAIN acc \cup ids |->
         IF id \in ids THEN given[last[id]].entry ELSE acc[id]]

(***************************************************************************)
(* The state machines.  Each specification runs one part of the programs   *)
(* and leaves the variables of the other parts at their idle values.       *)
(***************************************************************************)
lineVars == <<alias_table, line, data>>
topVars == <<input, num, printed>>
postVars == <<tag, outcome>>
pageVars == <<soup, messages, page_entries, counts>>
crawlVars == <<page, last_page, entries, fetched, first_nav, accepted>>

LineIdle == alias_table = <<>> /\ line = <<>> /\ data = NoRecord
TopIdle == input = <<>> /\ num = 0 /\ printed = <<>>
NoTag == Tag(<<>>, NoString, <<>>, NoString, <<>>)
NoSoup == Soup(0, <<>>, <<>>)

PostIdle == tag = NoTag /\ outcome = NoRecord
PageIdle ==
  soup = NoSoup /\ messages = <<>> /\ page_entries = EmptyDict /\ counts = NoCounts
CrawlIdle ==
  /\ page = 0 /\ last_page = 0 /\ entries = EmptyDict
  /\ fetched = <<>> /\ first_nav = NoString /\ accepted = EmptyDict

(***************************************************************************)
(* parse_line applied to one line.                                         *)
(***************************************************************************)
InitLine ==
  /\ pc = "line"
  /\ alias_table = TEAMS
  /\ line \in Lines
  /\ data = NoRecord
  /\ variant = "nba"
  /\ TopIdle /\ PostIdle /\ PageIdle /\ CrawlIdle

\* parse_line with its table a parameter: TEAMS, and TEAMS replaced by a
\* table with a shared alias
InitAlias ==
  /\ pc = "line"
  /\ alias_table \in {TEAMS, SHARED_TEAMS}
  /\ line \in AliasLines
  /\ data = NoRecord
  /\ variant = "nba"
  /\ TopIdle /\ PostIdle /\ PageIdle /\ CrawlIdle

ParseLine ==
  /\ pc = "line"
  /\ data' = parse_line(alias_table, line)
  /\ pc' = "parsed"
  /\ UNCHANGED <<alias_table, line, variant, topVars, postVars, pageVars, crawlVars>>

NextLine == ParseLine

Spec == InitLine /\ [][NextLine]_vars

SpecAlias == InitAlias /\ [][NextLine]_vars

(***************************************************************************)
(* The claims about parse_line.  The teams and scores a line holds are     *)
(* stated here on the characters of the line, apart from the parser.       *)
(***************************************************************************)
RECURSIVE Ascending(_)
Ascending(S) ==
  IF S = {} THEN <<>>
  ELSE LET m == CHOOSE x \in S : \A y \in S : x <= y
       IN  <<m>> \o Ascending(S \ {m})

\* The word tokens of the line in state
Tokens == FindWords(casefold(line), 1)

\* The entries of the table that list a word, and the earliest of them
Listing(table, word) ==
  {k \in 1..Len(table) : \E i \in 1..Len(table[k].names) : table[k].names[i] = word}

Earliest(table, word) ==
  table[CHOOSE k \in Listing(table, word) :
          \A j \in Listing(table, word) : k <= j].team

\* The distinct teams that the tokens name, in order of first occurrence
TeamsNamed(table, tokens) ==
  LET naming == {i \in 1..Len(tokens) : Listing(table, tokens[i]) # {}}
      named  == [i \in naming |-> Earliest(table, tokens[i])]
      first  == Ascending({i \in naming : \A j \in naming : j < i => named[j] # named[i]})
  IN  [n \in 1..Len(first) |-> named[first[n]]]

DistinctTeams == TeamsNamed(alias_table, Tokens)

\* Positions of the digits 0-4 that stand alone, and of those that are
\* neither preceded by "(" nor followed by ")"
Standalone(s) ==
  {p \in 1..Len(s) :
     /\ s[p] \in {"0", "1", "2", "3", "4"}
     /\ p > 1 => s[p - 1] \notin WordChars
     /\ p < Len(s) => s[p + 1] \notin WordChars}

Unparenthesized(s) ==
  {p \in Standalone(s) :
     /\ p > 1 => s[p - 1] # "("
     /\ p < Len(s) => s[p + 1] # ")"}

Parenthesized(s) ==
  {p \in Standalone(s) : p > 1 /\ s[p - 1] = "(" /\ p < Len(s) /\ s[p + 1] = ")"}

ScoresAt(s, positions) ==
  LET order == Ascending(positions)
  IN  [n \in 1..Len(order) |-> DigitValue(s[order[n]])]

LineScores == ScoresAt(line, Unparenthesized(line))

Valid(teams, scores) ==
  /\ Len(teams) = 2
  /\ Len(scores) = 2
  /\ Cardinality({n \in 1..2 : scores[n] = 4}) = 1

ValidLine == Valid(DistinctTeams, LineScores)

\* What the claim has parse_line return for teams (A, B) and scores (s1, s2)
Claimed(teams, scores) ==
  [kind   |-> "return",
   result |-> <<IF scores[1] > scores[2] THEN teams[1] ELSE teams[2],
                scores[1] + scores[2]>>,
   teams  |-> teams,
   scores |-> scores]

\* C1: on every valid line (two distinct teams A then B in order of first
\* occurrence, two standalone unparenthesized scores s1 then s2, exactly one
\* of them 4) parse_line returns teams (A, B), scores (s1, s2), the winner A
\* if s1 > s2 else B, and the total s1 + s2; and every prediction it returns
\* has two distinct teams, both scores in 0..4, exactly one score 4, and the
\* winner is the team with the strictly greater score.
C1_ValidLineParsed ==
  pc = "parsed" =>
    /\ LET teams == DistinctTeams
           scores == LineScores
       IN  Valid(teams, scores) => data = Claimed(teams, scores)
    /\ data.kind = "return" =>
         /\ Len(data.teams) = 2 /\ data.teams[1] # data.teams[2]
         /\ Len(data.scores) = 2
         /\ \A n \in 1..2 : data.scores[n] \in 0..4
         /\ Cardinality({n \in 1..2 : data.scores[n] = 4}) = 1
         /\ \E n \in 1..2 :
              /\ data.result[1] = data.teams[n]
              /\ data.scores[n] = 4
              /\ data.scores[n] > data.scores[3 - n]
         /\ data.result[2] = data.scores[1] + data.scores[2]

\* A valid line whose second team wins has been parsed
C1_Witness ==
  /\ pc = "parsed"
  /\ ValidLine
  /\ data.kind = "return"
  /\ LineScores[2] = 4
  /\ data.result[1] = DistinctTeams[2]

\* The rules of parse_line that a line violates, by number
ViolatedBy(teams, scores) ==
  {r \in 1..5 :
     \/ r = 1 /\ Len(teams) = 0
     \/ r = 2 /\ Len(scores) = 0
     \/ r = 3 /\ Len(teams) # 2
     \/ r = 4 /\ Len(scores) # 2
     \/ r = 5 /\ Cardinality({n \in 1..Len(scores) : scores[n] = 4}) # 1}

Violated == ViolatedBy(DistinctTeams, LineScores)

Reason ==
  <<"no team found", "no score found", "must have exactly two teams",
    "must have exactly two scores", "exactly one score must be 4">>

\* C2: a line that violates a rule is rejected, without a prediction, with
\* the reason of the lowest-numbered rule it violates: no team, no score,
\* not two distinct teams, not two scores, not exactly one score of 4.
C2_FirstViolatedRule ==
  pc = "parsed" =>
    LET violated == Violated
    IN  violated # {} =>
          /\ data.kind = "AssertionError"
          /\ data.msg = Reason[CHOOSE r \in violated : \A q \in violated : r <= q]

\* Lines that violate several rules have been rejected: without a team and
\* with three scores, and with one team and no score
C2_Witness ==
  /\ pc = "parsed"
  /\ \/ {1, 4} \subseteq Violated /\ Len(LineScores) = 3
        /\ data.msg = "no team found"
     \/ Violated = {2, 3, 4, 5} /\ Len(DistinctTeams) = 1
        /\ data.msg = "no score found"

\* The line with its parenthesized digits replaced by a space
Blank(s) == [p \in 1..Len(s) |-> IF p \in Parenthesized(s) THEN " " ELSE s[p]]

\* C9: a digit 0-4 between "(" and ")" is never extracted as a score, and
\* the line parses as it does without that digit; with two teams and the
\* standalone digits 4 and 2, neither next to a parenthesis, beside a
\* parenthesized digit the line is accepted with scores (4, 2).
C9_ParenthesizedDigitsIgnored ==
  pc = "parsed" =>
    /\ \A p \in Parenthesized(casefold(line)) :
         ~ScoreMatchAt(casefold(line), p)
    /\ data = parse_line(alias_table, Blank(line))
    /\ data.kind = "return" => data.scores = LineScores
    /\ (/\ Parenthesized(line) # {}
        /\ Len(DistinctTeams) = 2
        /\ LineScores = <<4, 2>>)
         => data.kind = "return" /\ data.scores = <<4, 2>>

\* A line with two teams, a parenthesized 3 and the digits 4 and 2 has been
\* accepted
C9_Witness ==
  /\ pc = "parsed"
  /\ \E p \in Parenthesized(line) : line[p] = "3"
  /\ data.kind = "return"
  /\ data.scores = <<4, 2>>

\* C4: for any alias table, one where two teams share an alias included,
\* every token resolves to the earliest-declared team that lists it and a
\* token whose team is already collected adds no team: the teams parse_line
\* collects are the distinct teams the tokens name, in order of first
\* occurrence.
C4_EarliestDeclaredTeamWins ==
  pc = "parsed" =>
    /\ data.kind = "return" => data.teams = DistinctTeams
    /\ (data.kind = "AssertionError" /\ data.msg = "must have exactly two teams")
         => data.args = DistinctTeams
    /\ (data.kind = "AssertionError" /\ data.msg = "no team found")
         => DistinctTeams = <<>>

(***************************************************************************)
(* print_top applied to one list.                                          *)
(***************************************************************************)
InitTop ==
  /\ pc = "top"
  /\ input \in TopInputs
  /\ num \in 1..MaxNum
  /\ printed = <<>>
  /\ variant = "olympics"
  /\ LineIdle /\ PostIdle /\ PageIdle /\ CrawlIdle

PrintTop ==
  /\ pc = "top"
  /\ printed' = print_top(input, num)
  /\ pc' = "printed"
  /\ UNCHANGED <<input, num, variant, lineVars, postVars, pageVars, crawlVars>>

NextTop == PrintTop

SpecTop == InitTop /\ [][NextTop]_vars

(***************************************************************************)
(* The claim about print_top.                                              *)
(***************************************************************************)
\* C8: for a list of (count, key) pairs sorted descending by count and
\* N >= 1, print_top outputs every entry when the list has N entries or
\* fewer, and otherwise exactly the entries whose count is at least the
\* count of the N-th entry: a prefix of the list of at least N rows that
\* never splits a tie at the cutoff.
C8_ThresholdRule ==
  pc = "printed" =>
    IF Len(input) > num
    THEN \E k \in num..Len(input) :
           /\ printed = SubSeq(input, 1, k)
           /\ \A i \in 1..Len(input) : i <= k <=> input[i][1] >= input[num][1]
    ELSE printed = input

\* N = 3 over [(5,a),(5,b),(4,c),(3,d)] has printed a, b, c and not d
C8_Witness ==
  /\ pc = "printed"
  /\ num = 3
  /\ input = <<<<5, "a">>, <<5, "b">>, <<4, "c">>, <<3, "d">>>>
  /\ printed = <<<<5, "a">>, <<5, "b">>, <<4, "c">>>>

(***************************************************************************)
(* nba.py parse_message applied to one post.                               *)
(***************************************************************************)
InitPost ==
  /\ pc = "post"
  /\ variant = "nba"
  /\ tag \in MessageTags
  /\ outcome = NoRecord
  /\ LineIdle /\ TopIdle /\ PageIdle /\ CrawlIdle

ExtractPost ==
  /\ pc = "post"
  /\ outcome' = nba_parse_message(tag)
  /\ pc' = "extracted"
  /\ UNCHANGED <<variant, tag, lineVars, topVars, pageVars, crawlVars>>

NextPost == ExtractPost

SpecPost == InitPost /\ [][NextPost]_vars

(***************************************************************************)
(* The claim about the post extractor of nba.py.                           *)
(***************************************************************************)
\* The body lines of a post: its text outside quotes, images and signatures
BodyLines(t) ==
  LET texts == SelectSeq(t.body, LAMBDA n : n.node = "text")
  IN  SelectSeq([i \in 1..Len(texts) |-> strip(texts[i].string)],
                LAMBDA l : l # <<>>)

\* The (winner, total) pairs of the body lines that parse_line accepts
Successes(t) ==
  LET parsed == [i \in 1..Len(BodyLines(t)) |-> parse_line(TEAMS, BodyLines(t)[i])]
      ok     == SelectSeq(parsed, LAMBDA d : d.kind = "return")
  IN  [i \in 1..Len(ok) |-> ok[i].result]

\* The post has a permalink anchor, a timestamp that parses under the fixed
\* format, and a first line that is not the duplicate marker
PassesChecks(t) ==
  /\ t.a # NoString
  /\ parse_date(t) # NoDate
  /\ BodyLines(t) = <<>> \/ BodyLines(t)[1] # DUPLICATE_MARKER

\* The claim as stated: a post is accepted, with the results of its lines,
\* if and only if exactly 15 of its body lines parse.  Posts whose timestamp
\* raises ValueError are left aside: their fate is the matter of C3.
C7_AcceptedIffFifteen ==
  (pc = "extracted" /\ outcome.kind # "ValueError") =>
    LET results == Successes(tag)
    IN  /\ outcome.kind = "return" <=> Len(results) = 15
        /\ outcome.kind = "return" => outcome.entry.results = results

\* C7: a post that passes the advertisement, timestamp and duplicate checks
\* is accepted if and only if exactly 15 of its body lines parse; the lines
\* that fail are skipped, the results of the record are the 15 (winner,
\* total) pairs in line order, and any other number of successes discards
\* the post: "no series found." for none, the count mismatch otherwise.
C7_AcceptedIffFifteenAfterChecks ==
  (pc = "extracted" /\ PassesChecks(tag)) =>
    LET results == Successes(tag)
    IN  /\ outcome.kind = "return" <=> Len(results) = 15
        /\ outcome.kind = "return" => outcome.entry.results = results
        /\ Len(results) = 0 =>
             outcome.kind = "AssertionError" /\ outcome.msg = "no series found."
        /\ Len(results) \notin {0, 15} =>
             /\ outcome.kind = "AssertionError"
             /\ outcome.msg = "number of series must be 15, found"
             /\ outcome.args = <<Len(results)>>

\* A post of 16 lines, one of which does not parse, has been accepted
C7_Witness ==
  /\ pc = "extracted"
  /\ PassesChecks(tag)
  /\ Len(BodyLines(tag)) = 16
  /\ outcome.kind = "return"
  /\ Len(outcome.entry.results) = 15

(***************************************************************************)
(* get_messages applied to one page, one post per step.  pc is "messages"  *)
(* inside the loop, "returned" after it, and "fatal" once an exception     *)
(* that get_messages does not catch has left it.                           *)
(***************************************************************************)
InitPage ==
  /\ variant \in {"nba", "olympics"}
  /\ \E trs \in SeqsUpTo(TAGS(variant), MaxPosts) :
       /\ soup = Soup(200, trs, <<>>)
       /\ messages = trs
       /\ pc = IF trs = <<>> THEN "returned" ELSE "messages"
  /\ page = start_page(variant)
  /\ page_entries = EmptyDict
  /\ counts = NoCounts
  /\ outcome = NoRecord
  /\ tag = NoTag
  /\ last_page = 0 /\ entries = EmptyDict
  /\ fetched = <<>> /\ first_nav = NoString /\ accepted = EmptyDict
  /\ LineIdle /\ TopIdle

NextMessage ==
  /\ pc = "messages"
  /\ LET st == Iteration(variant, page,
                         [entries |-> page_entries, counts |-> counts,
                          last |-> outcome, raised |-> FALSE],
                         Head(messages))
     IN  /\ page_entries' = st.entries
         /\ counts' = st.counts
         /\ outcome' = st.last
         /\ tag' = Head(messages)
         /\ messages' = Tail(messages)
         /\ pc' = IF st.raised THEN "fatal"
                  ELSE IF Tail(messages) = <<>> THEN "returned"
                  ELSE "messages"
  /\ UNCHANGED <<variant, soup, page, last_page, entries, fetched, first_nav,
                 accepted, lineVars, topVars>>

NextPage == NextMessage

SpecPage == InitPage /\ [][NextPage]_vars

(***************************************************************************)
(* The claims about the page aggregator.                                   *)
(***************************************************************************)
\* The first body line of a post, NoString when the body has no line
FirstLine(t) ==
  LET lines == stripped_strings(cleanup_text(t.body, {"div", "img", "span"}))
  IN  IF lines = <<>> THEN NoString ELSE lines[1]

\* C3: a post that fails extraction, for the timestamp included, is skipped
\* alone: get_messages processes every other post of the page and returns
\* exactly the accepted ones keyed by id.
C3_DiscardAndContinue ==
  variant = "nba" =>
    /\ pc # "fatal"
    /\ pc = "returned" =>
         page_entries = LastAccepted(variant, page, EmptyDict, soup.trs)

\* C10: a post discarded as an advertisement or as a duplicate adds no
\* record and leaves the user, emote and image tables as they were.
C10_DiscardLeavesNoTrace ==
  [][(/\ pc = "messages"
      /\ \/ Head(messages).a = NoString
         \/ FirstLine(Head(messages)) = DUPLICATE_MARKER
      /\ outcome'.kind = "AssertionError")
       => (page_entries' = page_entries /\ counts' = counts)]_vars

(***************************************************************************)
(* The crawl loop of nba.py, one iteration per step.  pc is "crawl" before *)
(* an iteration, "export" after the loop, and "fatal" once an exception    *)
(* has ended the run.  fetched and accepted are history variables.         *)
(***************************************************************************)
InitCrawl ==
  /\ pc = "crawl"
  /\ variant = "nba"
  /\ page = nba_start_page
  /\ last_page = 0
  /\ entries = EmptyDict
  /\ fetched = <<>>
  /\ first_nav = NoString
  /\ accepted = EmptyDict
  /\ LineIdle /\ TopIdle /\ PostIdle
  /\ soup = NoSoup /\ messages = <<>> /\ page_entries = EmptyDict /\ counts = NoCounts

\* The comparison of line 171 made strict
BreaksAbove(pg, last) == pg > last

\* Line 171
Breaks(pg, last) == pg >= last

CrawlPage ==
  /\ pc = "crawl"
  /\ \E s \in CrawlSoups :
       LET st   == get_messages(variant, page, s.trs, counts)
           last == IF last_page = 0 THEN get_last_page(s) ELSE IntOf(last_page)
       IN  /\ fetched' = Append(fetched, page)
           /\ first_nav' = IF fetched = <<>> /\ s.status = 200 THEN s.nav
                            ELSE first_nav
           /\ IF s.status # 200
              THEN /\ pc' = "fatal"
                   /\ UNCHANGED <<page, last_page, entries, accepted, counts>>
              ELSE /\ accepted' = LastAccepted(variant, page, accepted,
                                              Processed(variant, page, s.trs))
                   /\ counts' = st.counts
                   /\ IF st.raised
                      THEN /\ pc' = "fatal"
                           /\ UNCHANGED <<page, last_page, entries>>
                      ELSE /\ entries' = Update(entries, st.entries)
                           /\ IF last = NoInt
                              THEN /\ pc' = "fatal"
                                   /\ UNCHANGED <<page, last_page>>
                              ELSE /\ last_page' = last.value
                                   /\ IF Breaks(page, last.value) \/ page + 1 >= nba_start_page + nba_LIMIT
                                      THEN pc' = "export" /\ page' = page
                                      ELSE pc' = "crawl" /\ page' = page + 1
  /\ UNCHANGED <<variant, soup, messages, page_entries, lineVars, topVars, postVars>>

NextCrawl == CrawlPage

SpecCrawl == InitCrawl /\ [][NextCrawl]_vars /\ WF_vars(CrawlPage)

(***************************************************************************)
(* The claims about the crawl driver.                                      *)
(***************************************************************************)
\* C5: the table is last-write-wins by post id across the crawl: one
\* record per id, that of the last accepted post with the id in crawl
\* order; a later discarded post with the id leaves the record alone.
C5_LastWriteWins ==
  pc \in {"crawl", "export"} =>
    /\ entries = accepted
    /\ \A id \in DOMAIN entries : entries[id].id = id

\* After two pages the table holds post 7 as its last accepted author
\* wrote it, beside post 8
C5_Witness ==
  /\ pc = "crawl"
  /\ Len(fetched) = 2
  /\ DOMAIN entries = {"7", "8"}
  /\ entries["7"].user = "pun"
  /\ accepted["7"].user = "pun"

\* The last page number the first fetched page shows
FirstLast == ParseInt(first_nav)

Pages(a, b) == [i \in 1..(b - a + 1) |-> a + i - 1]

Min(a, b) == IF a <= b THEN a ELSE b

\* C6: the crawl stops; it fetches the consecutive pages from start_page
\* on, at most LIMIT of them, and with start_page <= last_page none above
\* the last page the first fetched page shows: at the export the pages
\* fetched are start_page .. min(last_page, start_page + LIMIT - 1).
C6_CrawlStopsWithinCaps ==
  /\ [](/\ fetched = Pages(nba_start_page, nba_start_page + Len(fetched) - 1)
        /\ Len(fetched) <= nba_LIMIT
        /\ (pc # "fatal" /\ fetched # <<>>) => last_page = FirstLast.value
        /\ (fetched # <<>> /\ first_nav # NoString /\ FirstLast.ok
              /\ nba_start_page <= FirstLast.value)
             => \A i \in 1..Len(fetched) : fetched[i] <= FirstLast.value
        /\ (pc = "export" /\ nba_start_page <= FirstLast.value)
             => fetched = Pages(nba_start_page,
                                Min(FirstLast.value,
                                    nba_start_page + nba_LIMIT - 1)))
  /\ <>(pc \in {"export", "fatal"})

\* The crawl has stopped at the last page, below the limit
C6_Witness ==
  /\ pc = "export"
  /\ last_page = 6654
  /\ fetched = <<6652, 6653, 6654>>

=============================================================================
